---- MODULE Spec2Model ----
(***************************************************************************)
(* Model of cc.py, the compile_commands.json generator of xmux.            *)
(*                                                                         *)
(* A string is a sequence of one-character strings, so that suffix tests,  *)
(* joins, splits and substring searches are computed and not assumed.      *)
(* The source tree is a forest of directory entries in scandir order.      *)
(* The output file is a sequence of JSON tokens; one object is one token.  *)
(***************************************************************************)
EXTENDS Naturals, Sequences, FiniteSets

\* ------------------------------------------------------------------ bounds
\* Largest number of files and directories below src.
MaxNodes == 3

\* ------------------------------------------------------- string primitives
Slash == <<"/">>
Dot == <<".">>
DotDot == <<".", ".">>
Space == <<" ">>

\* str.startswith
StartsWith(s, pre) ==
    /\ Len(s) >= Len(pre)
    /\ SubSeq(s, 1, Len(pre)) = pre

\* str.endswith
EndsWith(s, suf) ==
    /\ Len(s) >= Len(suf)
    /\ SubSeq(s, Len(s) - Len(suf) + 1, Len(s)) = suf

\* the Python test: sub in s
Contains(s, sub) ==
    \E i \in 1..(Len(s) + 1) :
        /\ i + Len(sub) - 1 <= Len(s)
        /\ SubSeq(s, i, i + Len(sub) - 1) = sub

\* sep.join(parts)
RECURSIVE JoinWith(_, _)
JoinWith(sep, parts) ==
    IF parts = <<>> THEN <<>>
    ELSE IF Len(parts) = 1 THEN parts[1]
    ELSE parts[1] \o sep \o JoinWith(sep, Tail(parts))

\* s.split('/'): the pieces between slashes, empty pieces included
RECURSIVE SplitFrom(_, _, _)
SplitFrom(s, i, cur) ==
    IF i > Len(s) THEN <<cur>>
    ELSE IF s[i] = "/" THEN <<cur>> \o SplitFrom(s, i + 1, <<>>)
    ELSE SplitFrom(s, i + 1, Append(cur, s[i]))

Split(s) == SplitFrom(s, 1, <<>>)

\* [x for x in parts if x]
RECURSIVE NonEmpty(_)
NonEmpty(parts) ==
    IF parts = <<>> THEN <<>>
    ELSE IF parts[1] = <<>> THEN NonEmpty(Tail(parts))
    ELSE <<parts[1]>> \o NonEmpty(Tail(parts))

\* ------------------------------------------------------------ os.path (posix)
\* os.path.join(a, b)
join(a, b) ==
    IF StartsWith(b, Slash) THEN b
    ELSE IF a = <<>> \/ EndsWith(a, Slash) THEN a \o b
    ELSE a \o Slash \o b

\* os.path.join(*parts) for a non-empty list
RECURSIVE joinAll(_)
joinAll(parts) ==
    IF Len(parts) = 1 THEN parts[1]
    ELSE join(joinAll(SubSeq(parts, 1, Len(parts) - 1)), parts[Len(parts)])

\* the leading slashes normpath keeps: 0, 1, or 2 for exactly two
InitialSlashes(path) ==
    IF ~StartsWith(path, Slash) THEN 0
    ELSE IF StartsWith(path, <<"/", "/">>) /\ ~StartsWith(path, <<"/", "/", "/">>) THEN 2
    ELSE 1

\* the component loop of normpath
RECURSIVE NormComps(_, _, _)
NormComps(comps, acc, slashes) ==
    IF comps = <<>> THEN acc
    ELSE LET comp == comps[1]
             rest == Tail(comps)
         IN IF comp = <<>> \/ comp = Dot THEN NormComps(rest, acc, slashes)
            ELSE IF \/ comp # DotDot
                    \/ (slashes = 0 /\ acc = <<>>)
                    \/ (acc # <<>> /\ acc[Len(acc)] = DotDot)
                 THEN NormComps(rest, Append(acc, comp), slashes)
            ELSE IF acc # <<>>
                 THEN NormComps(rest, SubSeq(acc, 1, Len(acc) - 1), slashes)
            ELSE NormComps(rest, acc, slashes)

\* os.path.normpath
normpath(path) ==
    IF path = <<>> THEN Dot
    ELSE LET n == InitialSlashes(path)
             body == JoinWith(Slash, NormComps(Split(path), <<>>, n))
             lead == IF n = 2 THEN <<"/", "/">> ELSE IF n = 1 THEN Slash ELSE <<>>
             res == lead \o body
         IN IF res = <<>> THEN Dot ELSE res

\* os.path.abspath, with the working directory given
abspath(wd, path) ==
    IF StartsWith(path, Slash) THEN normpath(path)
    ELSE normpath(join(wd, path))

\* os.path.commonprefix of two lists: the length of the common prefix
RECURSIVE CommonLen(_, _)
CommonLen(a, b) ==
    IF a = <<>> \/ b = <<>> THEN 0
    ELSE IF a[1] # b[1] THEN 0
    ELSE 1 + CommonLen(Tail(a), Tail(b))

\* os.path.relpath(path, start), with the working directory given
relpath(wd, path, start) ==
    LET startList == NonEmpty(Split(abspath(wd, start)))
        pathList == NonEmpty(Split(abspath(wd, path)))
        i == CommonLen(startList, pathList)
        ups == [k \in 1..(Len(startList) - i) |-> DotDot]
        relList == ups \o SubSeq(pathList, i + 1, Len(pathList))
    IN IF relList = <<>> THEN Dot ELSE joinAll(relList)

\* ------------------------------------------------------ the file systems tried
\* Names of plain files that may lie below src.
FileNames ==
    { <<"a", ".", "c", "p", "p">>,
      <<"b", ".", "c", "c">>,
      <<"c", ".", "h", "p", "p">>,
      <<"a", ".", "c", "p", "p", ".", "b", "a", "k">> }

\* Names of directories that may lie below src; one of them ends with .cpp.
DirNames ==
    { <<"d">>,
      <<"e", ".", "c", "p", "p">> }

\* A directory entry.  A file has no entries; a directory that cannot be
\* listed (permission denied) has readable = FALSE.
FileEntry(n) == [name |-> n, kind |-> "file", readable |-> TRUE, entries |-> <<>>]

DirEntry(n, r, es) == [name |-> n, kind |-> "dir", readable |-> r, entries |-> es]

NamesOf(es) == {es[i].name : i \in DOMAIN es}

\* Every listing, in every scandir order, with exactly n nodes in total and
\* no name twice in one directory.
RECURSIVE ForestsOfSize(_)
RECURSIVE EntriesOfSize(_)
EntriesOfSize(k) ==
    (IF k = 1 THEN {FileEntry(n) : n \in FileNames} ELSE {})
    \cup {DirEntry(n, r, es) : n \in DirNames, r \in BOOLEAN, es \in ForestsOfSize(k - 1)}

ForestsOfSize(n) ==
    IF n = 0 THEN {<<>>}
    ELSE UNION { UNION { { <<e>> \o f : f \in {g \in ForestsOfSize(n - k) : e.name \notin NamesOf(g)} }
                         : e \in EntriesOfSize(k) }
                 : k \in 1..n }

Forests == UNION {ForestsOfSize(n) : n \in 0..MaxNodes}

\* What may be found at ./src: nothing, or a directory.
SrcTrees ==
    {[name |-> <<"s", "r", "c">>, kind |-> "missing", readable |-> FALSE, entries |-> <<>>]}
    \cup {DirEntry(<<"s", "r", "c">>, TRUE, es) : es \in Forests}
    \cup {DirEntry(<<"s", "r", "c">>, FALSE, <<>>)}

\* Working directories the tool is started in.
WorkDirs ==
    { <<"/">>,
      <<"/", "p">> }

\* ------------------------------------------------------------------- state
VARIABLES
    cwd,        \* the working directory of the process
    src,        \* what lies at ./src, as a directory entry
    disk,       \* the files of the working directory outside src
    pc,         \* where main is
    cppFiles,   \* main's cppFiles
    commands,   \* main's commands
    chunks,     \* the chunks json.dump has still to write
    fOpen,      \* the output file object is open
    printed,    \* confirmation lines printed by this run
    second,     \* this is the second invocation in this directory
    before,     \* disk as this run found it
    prev        \* what the last successful run collected and wrote

vars == <<cwd, src, disk, pc, cppFiles, commands, chunks, fOpen, printed, second, before, prev>>

\* ----------------------------------------------------------- configuration
projectRoot == abspath(cwd, Dot)

srcDir == join(projectRoot, <<"s", "r", "c">>)

compiler == <<"c", "l", "a", "n", "g", "+", "+">>

\* The flag list with -Wextra forgotten.
flagsWithoutWextra ==
    << <<"-", "s", "t", "d", "=", "c", "+", "+", "2", "0">>,
       <<"-", "W", "a", "l", "l">>,
       <<"-", "I", "i", "n", "c", "l", "u", "d", "e">> >>

flags ==
    << <<"-", "s", "t", "d", "=", "c", "+", "+", "2", "0">>,
       <<"-", "W", "a", "l", "l">>,
       <<"-", "W", "e", "x", "t", "r", "a">>,
       <<"-", "I", "i", "n", "c", "l", "u", "d", "e">> >>

DotCpp == <<".", "c", "p", "p">>

\* ------------------------------------------------------------- getCppFiles
\* os.walk(top), top-down and with onerror left at None: a directory that
\* is missing or cannot be listed raises inside scandir, the error is
\* dropped and the directory contributes nothing.
RECURSIVE walk(_, _)
RECURSIVE WalkDirs(_, _)
walk(top, d) ==
    IF d.kind # "dir" \/ ~d.readable THEN <<>>
    ELSE LET dirs == SelectSeq(d.entries, LAMBDA e : e.kind = "dir")
             nondirs == SelectSeq(d.entries, LAMBDA e : e.kind # "dir")
         IN << [root |-> top,
                dirs |-> [i \in DOMAIN dirs |-> dirs[i].name],
                files |-> [i \in DOMAIN nondirs |-> nondirs[i].name]] >>
            \o WalkDirs(top, dirs)

WalkDirs(top, dirs) ==
    IF dirs = <<>> THEN <<>>
    ELSE walk(join(top, dirs[1].name), dirs[1]) \o WalkDirs(top, Tail(dirs))

\* the inner loop: for file in files
RECURSIVE CppOfFiles(_, _)
CppOfFiles(root, files) ==
    IF files = <<>> THEN <<>>
    ELSE (IF EndsWith(files[1], DotCpp) THEN <<join(root, files[1])>> ELSE <<>>)
         \o CppOfFiles(root, Tail(files))

\* the outer loop: for root, _, files in os.walk(directory)
RECURSIVE CppOfWalk(_)
CppOfWalk(triples) ==
    IF triples = <<>> THEN <<>>
    ELSE CppOfFiles(triples[1].root, triples[1].files) \o CppOfWalk(Tail(triples))

getCppFiles(directory, tree) == CppOfWalk(walk(directory, tree))

\* The entry with the path taken relative to srcDir instead of projectRoot.
generateCompileCommandFromSrcDir(filePath) ==
    LET relPath == relpath(cwd, filePath, srcDir)
    IN [directory |-> projectRoot,
        command |-> compiler \o Space \o JoinWith(Space, flags)
                    \o <<" ", "-", "c", " ">> \o relPath
                    \o <<" ", "-", "o", " ", "/", "d", "e", "v", "/", "n", "u", "l", "l">>,
        file |-> relPath]

\* -------------------------------------------------- generateCompileCommand
generateCompileCommand(filePath) ==
    LET relPath == relpath(cwd, filePath, projectRoot)
    IN [directory |-> projectRoot,
        command |-> compiler \o Space \o JoinWith(Space, flags)
                    \o <<" ", "-", "c", " ">> \o relPath
                    \o <<" ", "-", "o", " ", "/", "d", "e", "v", "/", "n", "u", "l", "l">>,
        file |-> relPath]

\* -------------------------------------------------------------- json.dump
\* The tokens of the written text.  An object is one token that carries its
\* three values in key order.
LBracket == [tok |-> "[", val |-> <<>>]

RBracket == [tok |-> "]", val |-> <<>>]

Comma == [tok |-> ",", val |-> <<>>]

Object(c) == [tok |-> "{}", val |-> <<c.directory, c.command, c.file>>]

\* the items of a non-empty list with their separators
RECURSIVE ItemChunks(_, _)
ItemChunks(items, first) ==
    IF items = <<>> THEN <<>>
    ELSE (IF first THEN <<>> ELSE << <<Comma>> >>)
         \o << <<Object(items[1])>> >>
         \o ItemChunks(Tail(items), FALSE)

\* what the encoder yields for a list, one write per chunk: '[]' in one
\* chunk for the empty list
iterencode(lst) ==
    IF lst = <<>> THEN << <<LBracket, RBracket>> >>
    ELSE << <<LBracket>> >> \o ItemChunks(lst, TRUE) \o << <<RBracket>> >>

\* ----------------------------------------------------------------- the disk
\* open('compile_commands.json', 'w') names a file of the working directory.
OutputName == "compile_commands.json"

\* Another file of the working directory, which the tool has no business with.
OtherName == "notes.txt"

Absent == [exists |-> FALSE, data |-> <<>>]

File(d) == [exists |-> TRUE, data |-> d]

\* What notes.txt holds.
Notes == <<[tok |-> "text", val |-> <<>>]>>

NoRun == [set |-> FALSE, files |-> <<>>, out |-> Absent]

Init ==
    /\ cwd \in WorkDirs
    /\ src \in SrcTrees
    /\ disk = [n \in {OutputName, OtherName} |->
                  IF n = OutputName THEN Absent ELSE File(Notes)]
    /\ pc = "start"
    /\ cppFiles = <<>>
    /\ commands = <<>>
    /\ chunks = <<>>
    /\ fOpen = FALSE
    /\ printed = 0
    /\ second = FALSE
    /\ before = disk
    /\ prev = NoRun

\* ------------------------------------------------------------------- main
\* cppFiles = getCppFiles(srcDir)
GetCppFiles ==
    /\ pc = "start"
    /\ cppFiles' = getCppFiles(srcDir, src)
    /\ pc' = "collected"
    /\ UNCHANGED <<cwd, src, disk, commands, chunks, fOpen, printed, second, before, prev>>

\* The comprehension run over cppFiles[1:], which loses the first file.
BuildCommandsSkipFirst ==
    /\ pc = "collected"
    /\ commands' = [i \in 1..(Len(cppFiles) - 1) |-> generateCompileCommand(cppFiles[i + 1])]
    /\ pc' = "built"
    /\ UNCHANGED <<cwd, src, disk, cppFiles, chunks, fOpen, printed, second, before, prev>>

\* commands = [generateCompileCommand(f) for f in cppFiles]
BuildCommands ==
    /\ pc = "collected"
    /\ commands' = [i \in DOMAIN cppFiles |-> generateCompileCommand(cppFiles[i])]
    /\ pc' = "built"
    /\ UNCHANGED <<cwd, src, disk, cppFiles, chunks, fOpen, printed, second, before, prev>>

\* The file opened with mode 'a': what it held stays in front.
OpenAppend ==
    /\ pc = "built"
    /\ disk' = [disk EXCEPT ![OutputName] = File(disk[OutputName].data)]
    /\ fOpen' = TRUE
    /\ chunks' = iterencode(commands)
    /\ pc' = "opened"
    /\ UNCHANGED <<cwd, src, cppFiles, commands, printed, second, before, prev>>

\* The file opened under a wrong name.
OpenWrongName ==
    /\ pc = "built"
    /\ disk' = [disk EXCEPT ![OtherName] = File(<<>>)]
    /\ fOpen' = TRUE
    /\ chunks' = iterencode(commands)
    /\ pc' = "opened"
    /\ UNCHANGED <<cwd, src, cppFiles, commands, printed, second, before, prev>>

\* open(..., 'w') creates or truncates the file; json.dump then has every
\* chunk of the encoding to write.
Open ==
    /\ pc = "built"
    /\ disk' = [disk EXCEPT ![OutputName] = File(<<>>)]
    /\ fOpen' = TRUE
    /\ chunks' = iterencode(commands)
    /\ pc' = "opened"
    /\ UNCHANGED <<cwd, src, cppFiles, commands, printed, second, before, prev>>

\* open raises (permission denied, the name is a directory): nothing is
\* touched and the exception ends the run.
OpenFails ==
    /\ pc = "built"
    /\ pc' = "failed"
    /\ UNCHANGED <<cwd, src, disk, cppFiles, commands, chunks, fOpen, printed, second, before, prev>>

\* fp.write(chunk).  What has reached the file at any moment is some prefix
\* of the chunks written; the model lets each write reach it at once.
Write ==
    /\ pc = "opened"
    /\ chunks # <<>>
    /\ disk' = [disk EXCEPT ![OutputName] = File(disk[OutputName].data \o chunks[1])]
    /\ chunks' = Tail(chunks)
    /\ UNCHANGED <<cwd, src, pc, cppFiles, commands, fOpen, printed, second, before, prev>>

\* A write, a flush or the close raises (disk full, I/O error): the with
\* statement closes the file and the exception ends the run.
WriteFails ==
    /\ pc = "opened"
    /\ fOpen' = FALSE
    /\ pc' = "failed"
    /\ UNCHANGED <<cwd, src, disk, cppFiles, commands, chunks, printed, second, before, prev>>

\* the end of the with block
Close ==
    /\ pc = "opened"
    /\ chunks = <<>>
    /\ fOpen' = FALSE
    /\ pc' = "closed"
    /\ UNCHANGED <<cwd, src, disk, cppFiles, commands, chunks, printed, second, before, prev>>

\* The print placed inside the with block, ahead of json.dump.
PrintInsideWith ==
    /\ pc = "opened"
    /\ printed = 0
    /\ printed' = printed + 1
    /\ UNCHANGED <<cwd, src, disk, pc, cppFiles, commands, chunks, fOpen, second, before, prev>>

\* print('[+] compile_commands.json generated.')
PrintDone ==
    /\ pc = "closed"
    /\ printed' = printed + 1
    /\ pc' = "done"
    /\ UNCHANGED <<cwd, src, disk, cppFiles, commands, chunks, fOpen, second, before, prev>>

\* The tool is run a second time in the same directory, the tree untouched.
Invoke ==
    /\ pc \in {"done", "failed"}
    /\ ~second
    /\ second' = TRUE
    /\ pc' = "start"
    /\ cppFiles' = <<>>
    /\ commands' = <<>>
    /\ chunks' = <<>>
    /\ printed' = 0
    /\ before' = disk
    /\ prev' = IF pc = "done"
               THEN [set |-> TRUE, files |-> cppFiles, out |-> disk[OutputName]]
               ELSE prev
    /\ UNCHANGED <<cwd, src, disk, fOpen>>

Next ==
    \/ GetCppFiles
    \/ BuildCommands
    \/ Open
    \/ OpenFails
    \/ Write
    \/ WriteFails
    \/ Close
    \/ PrintDone
    \/ Invoke

Spec == Init /\ [][Next]_vars

\* ------------------------------------------------- vocabulary of the claims
Range(f) == {f[i] : i \in DOMAIN f}

IsPrefix(a, b) ==
    /\ Len(a) <= Len(b)
    /\ SubSeq(b, 1, Len(a)) = a

\* Every plain file anywhere below directory d, which lies at path top,
\* whether or not the directories on the way can be listed.
RECURSIVE FilesUnder(_, _)
FilesUnder(top, d) ==
    IF d.kind # "dir" THEN {}
    ELSE UNION { IF d.entries[i].kind = "file"
                 THEN {[path |-> top \o Slash \o d.entries[i].name, name |-> d.entries[i].name]}
                 ELSE FilesUnder(top \o Slash \o d.entries[i].name, d.entries[i])
                 : i \in DOMAIN d.entries }

\* The paths of the files below src whose name ends with .cpp.
CppFilesUnderSrc ==
    {f.path : f \in {g \in FilesUnder(srcDir, src) : EndsWith(g.name, DotCpp)}}

\* Some directory the walk comes to cannot be listed.
RECURSIVE HasUnlistable(_)
HasUnlistable(d) ==
    /\ d.kind = "dir"
    /\ \/ ~d.readable
       \/ \E i \in DOMAIN d.entries : HasUnlistable(d.entries[i])

\* The text of a whole database for the commands of this run.
RECURSIVE Flatten(_)
Flatten(cs) == IF cs = <<>> THEN <<>> ELSE cs[1] \o Flatten(Tail(cs))

NewDatabase == Flatten(iterencode(commands))

\* A reader of the written tokens: a JSON array of objects, or not one.
ParseArray(toks) ==
    LET n == Len(toks)
        bad == [ok |-> FALSE, items |-> <<>>]
    IN IF n < 2 THEN bad
       ELSE IF toks[1] # LBracket \/ toks[n] # RBracket THEN bad
       ELSE LET inner == SubSeq(toks, 2, n - 1)
                m == Len(inner)
            IN IF m = 0 THEN [ok |-> TRUE, items |-> <<>>]
               ELSE IF /\ m % 2 = 1
                       /\ \A j \in 1..m : IF j % 2 = 1 THEN inner[j].tok = "{}"
                                                        ELSE inner[j] = Comma
                    THEN [ok |-> TRUE,
                          items |-> [k \in 1..((m + 1) \div 2) |-> inner[2 * k - 1].val]]
               ELSE bad

\* ------------------------------------------------------------------ claims

\* C1: for every tree, getCppFiles returns exactly the files anywhere below
\* it whose name ends with .cpp: each of them, no other file, no directory.
C1_ExactlyTheCppFiles ==
    pc # "start" => Range(cppFiles) = CppFilesUnderSrc

\* Where every directory can be listed, the walk is exact and repeats no file.
WalkExactWhereListable ==
    (pc # "start" /\ src.kind = "dir" /\ ~HasUnlistable(src)) =>
        /\ Range(cppFiles) = CppFilesUnderSrc
        /\ Cardinality(Range(cppFiles)) = Len(cppFiles)

\* Whatever the walk returns is a .cpp file below src.
WalkReturnsOnlyCppFiles ==
    pc # "start" => Range(cppFiles) \subseteq CppFilesUnderSrc

\* C2: when src does not exist the run fails in the traversal: no database
\* is written, '[]' included, and no confirmation is printed.
C2_MissingSrcFails ==
    src.kind = "missing" =>
        /\ pc \in {"start", "failed"}
        /\ disk = before
        /\ printed = 0

\* C3: a directory below src that cannot be listed aborts the run:
\* getCppFiles does not return without its .cpp files, and main writes nothing.
C3_UnlistableAborts ==
    (src.kind = "dir" /\ HasUnlistable(src)) =>
        /\ pc \notin {"start", "failed"} => CppFilesUnderSrc \subseteq Range(cppFiles)
        /\ pc \notin {"opened", "closed", "done"}
        /\ disk = before

\* C4: when a run has ended, by success or by an error in open, write or
\* close, the output file holds its whole old content or the whole new
\* database.
C4_OldOrNew ==
    pc \in {"done", "failed"} =>
        \/ disk[OutputName] = before[OutputName]
        \/ disk[OutputName] = File(NewDatabase)

\* C4 as amended: after success the file holds the whole new database; after
\* an error it holds its old content or an initial part of the new database,
\* which may be empty.
C4_OldOrPrefixOfNew ==
    /\ pc = "done" => disk[OutputName] = File(NewDatabase)
    /\ pc = "failed" =>
          \/ disk[OutputName] = before[OutputName]
          \/ /\ disk[OutputName].exists
             /\ IsPrefix(disk[OutputName].data, NewDatabase)

C4_Witness ==
    /\ pc = "failed"
    /\ disk[OutputName].exists
    /\ disk[OutputName] # before[OutputName]
    /\ disk[OutputName].data # <<>>
    /\ disk[OutputName].data # NewDatabase
    /\ before[OutputName].exists

\* C5: after a successful run the file is a JSON array whose i-th entry is
\* generateCompileCommand of the i-th file getCppFiles returned, nothing
\* dropped, repeated or reordered; no file gives the empty array.
C5_OneEntryPerFile ==
    pc = "done" =>
        LET parsed == ParseArray(disk[OutputName].data)
        IN /\ disk[OutputName].exists
           /\ parsed.ok
           /\ Len(parsed.items) = Len(cppFiles)
           /\ \A i \in DOMAIN cppFiles :
                 parsed.items[i] = << generateCompileCommand(cppFiles[i]).directory,
                                      generateCompileCommand(cppFiles[i]).command,
                                      generateCompileCommand(cppFiles[i]).file >>
           /\ cppFiles = <<>> => disk[OutputName].data = <<LBracket, RBracket>>

C5_Witness ==
    /\ pc = "done"
    /\ Len(cppFiles) >= 2
    /\ cppFiles[1] # cppFiles[2]

\* C6: for every file F returned, projectRoot followed by '/' and the file
\* field of its entry is F again.
C6_ConcatRoundTrip ==
    \A i \in DOMAIN commands :
        projectRoot \o Slash \o commands[i].file = cppFiles[i]

\* C6 as amended: the file field is relative and os.path.join of projectRoot
\* and the field is F again; projectRoot, '/' and the field concatenated are
\* F unless projectRoot is the root directory.
C6_JoinRoundTrip ==
    \A i \in DOMAIN commands :
        /\ ~StartsWith(commands[i].file, Slash)
        /\ join(projectRoot, commands[i].file) = cppFiles[i]
        /\ projectRoot # Slash => projectRoot \o Slash \o commands[i].file = cppFiles[i]

C6_Witness ==
    /\ pc = "built"
    /\ projectRoot # Slash
    /\ \E i \in DOMAIN commands : Len(Split(commands[i].file)) >= 3

\* C7: the command of every entry contains -std=c++20, -Wall, -Wextra,
\* -Iinclude, and -c followed by the entry's file field.
C7_CommandHasFlags ==
    \A i \in DOMAIN commands :
        /\ Contains(commands[i].command, <<"-", "s", "t", "d", "=", "c", "+", "+", "2", "0">>)
        /\ Contains(commands[i].command, <<"-", "W", "a", "l", "l">>)
        /\ Contains(commands[i].command, <<"-", "W", "e", "x", "t", "r", "a">>)
        /\ Contains(commands[i].command, <<"-", "I", "i", "n", "c", "l", "u", "d", "e">>)
        /\ Contains(commands[i].command, <<"-", "c", " ">> \o commands[i].file)

C7_Witness ==
    /\ pc = "built"
    /\ Len(commands) >= 2

\* C8: a second run over the unchanged tree collects the files the first
\* run collected and leaves the file the first run left.
C8_SecondRunSame ==
    (second /\ prev.set) =>
        /\ pc # "start" => cppFiles = prev.files
        /\ pc = "done" => disk[OutputName] = prev.out

C8_Witness ==
    /\ second
    /\ prev.set
    /\ pc = "done"
    /\ Len(cppFiles) >= 1

\* C9: a run prints the confirmation at most once, and only when the whole
\* database is written and the file closed; a failed run prints none.
C9_PrintedOnceAfterClose ==
    /\ printed <= 1
    /\ printed = 1 =>
          /\ pc = "done"
          /\ ~fOpen
          /\ disk[OutputName] = File(NewDatabase)
    /\ pc = "failed" => printed = 0

C9_Witness ==
    /\ printed = 1
    /\ Len(commands) >= 1

\* C10: no step of a run changes anything but compile_commands.json: the
\* tree below src and every other file stay as they were.
C10_OnlyOutputChanges ==
    [][/\ src' = src
       /\ cwd' = cwd
       /\ DOMAIN disk' = DOMAIN disk
       /\ \A n \in DOMAIN disk : n # OutputName => disk'[n] = disk[n]]_vars

C10_Witness ==
    /\ pc \in {"done", "failed"}
    /\ disk[OutputName] # before[OutputName]
    /\ disk[OtherName] = before[OtherName]
    /\ src.entries # <<>>

====
